---- MODULE Spec2Model ----
(***************************************************************************)
(* A model of src/bot.py, the Telegram bot that downloads Spotify links    *)
(* through the external spotdl tool.                                       *)
(*                                                                         *)
(* Strings are sequences of chunks (<<"format_", "mp3">> is "format_mp3"), *)
(* so that strip, startswith, endswith and split are computed, not         *)
(* assumed.  The Telegram application is the one main() builds: updates    *)
(* are taken from the update queue one at a time and every handler is      *)
(* awaited before the next update is processed (no concurrent_updates, no  *)
(* block=False).  edit_message_text may be rejected (BadRequest) and the   *)
(* packaging/sending of files may raise, as lines 156-160 and 221 of the   *)
(* source provide for; the other Bot API calls are taken to return.        *)
(***************************************************************************)
EXTENDS Integers, Sequences, FiniteSets, TLC

VARIABLES
    pending_downloads,  \* the dict of line 41: user id -> stripped URL, or None
    update_queue,       \* updates received by polling, not yet processed
    running,            \* button_handler invocations awaiting run_in_executor
    downloads,          \* the "downloads" directory: [exists, files]
    submitted,          \* history: the last valid URL handle_message took from each user
    last                \* history: the latest handler step, with the Bot API calls it made

vars == <<pending_downloads, update_queue, running, downloads, submitted, last>>

\* ------------------------------------------------------------------ bounds

MaxQueue == 1       \* updates that may wait in the update queue
MaxFiles == 2       \* audio files one run of the tool may write
MaxTextLen == 3     \* chunks of a text message (specification SpecText)

\* ------------------------------------------------------------------ strings

None == <<"None">>

Whitespace == {" ", "\n"}

RECURSIVE LStrip(_)
LStrip(s) == IF s # <<>> /\ Head(s) \in Whitespace THEN LStrip(Tail(s)) ELSE s

RECURSIVE RStrip(_)
RStrip(s) ==
    IF s # <<>> /\ s[Len(s)] \in Whitespace THEN RStrip(SubSeq(s, 1, Len(s) - 1)) ELSE s

\* str.strip()
Strip(s) == RStrip(LStrip(s))

\* str.startswith(p)
StartsWith(s, p) == Len(s) >= Len(p) /\ SubSeq(s, 1, Len(p)) = p

\* str.endswith(p)
EndsWith(s, p) == Len(s) >= Len(p) /\ SubSeq(s, Len(s) - Len(p) + 1, Len(s)) = p

SUPPORTED_FORMATS == << <<"mp3">>, <<"m4a">>, <<"flac">>, <<"opus">> >>

\* Mutant: the spotify: URIs are not accepted.
valid_prefixes_links_only ==
    << <<"https://open.spotify.com/", "track/">>,
       <<"https://open.spotify.com/", "playlist/">>,
       <<"https://open.spotify.com/", "album/">> >>

\* Lines 121-128.
valid_prefixes ==
    << <<"https://open.spotify.com/", "track/">>,
       <<"https://open.spotify.com/", "playlist/">>,
       <<"https://open.spotify.com/", "album/">>,
       <<"spotify:", "track:">>,
       <<"spotify:", "playlist:">>,
       <<"spotify:", "album:">> >>

\* any(message.startswith(prefix) for prefix in valid_prefixes)
IsSpotifyUrl(message) ==
    \E i \in 1..Len(valid_prefixes) : StartsWith(message, valid_prefixes[i])

\* ------------------------------------------------------------------ inputs

Users == {1, 2}

TextA == <<" ", "https://open.spotify.com/", "track/", "id", "\n">>
TextB == <<"spotify:", "album:", "id">>
TextBad == <<"see", " ", "https://open.spotify.com/", "track/", "id">>
Texts == {TextA, TextB, TextBad}

Commands == {<<"/start">>, <<"/help">>, <<"/status">>}

CallbackData ==
    {<<"help">>, <<"status">>, <<"cancel">>,
     <<"format_", "mp3">>, <<"format_", "wav">>}

Update(kind, user, data) == [kind |-> kind, user |-> user, data |-> data]

Updates ==
    {Update("command", u, d) : u \in Users, d \in Commands}
    \cup {Update("text", u, d) : u \in Users, d \in Texts}
    \cup {Update("callback", u, d) : u \in Users, d \in CallbackData}

\* The chunks text messages of SpecText are made of.
Chunks ==
    {" ", "https://open.spotify.com/", "http://open.spotify.com/", "spotify:",
     "track/", "playlist/", "album/", "track:", "playlist:", "album:", "id"}

TextsUpTo(n) == UNION {[1..k -> Chunks] : k \in 1..n}

\* What edit_message_text can answer: done, BadRequest "Message is not
\* modified", or any other BadRequest.
EditResults == {"ok", "not_modified", "bad_request"}

SendResults == {"ok", "error"}

\* ------------------------------------------------------------------ files

\* A file: the directory it is in (path components), its name (chunks), and
\* the URL whose download wrote it.
File(dir, stem, ext, url) == [dir |-> dir, name |-> <<stem, ".">> \o ext, of |-> url]

download_dir == <<"downloads">>

\* What a run of `spotdl url --output downloads --format fmt` may leave in the
\* directory: n audio files of the requested format, the first at the top,
\* the others in a sub-directory, and possibly a file of another kind.
ToolOutput(url, audio_format, n, side) ==
    {File(IF k = 1 THEN download_dir ELSE download_dir \o <<"album">>,
          "track" \o ToString(k), audio_format, url) : k \in 1..n}
    \cup (IF side THEN {File(download_dir, "cover", <<"jpg">>, url)} ELSE {})

\* How subprocess.run(command, timeout=300) ends.
ToolOutcomes == {"exit0", "nonzero", "timeout"}

\* os.walk(download_dir): every file at or below the directory.
Walk(d, dir) == IF d.exists THEN {f \in d.files : StartsWith(f.dir, dir)} ELSE {}

\* Mutant: every file found is collected, whatever its extension.
CollectFiles_All(d, dir, audio_format) == Walk(d, dir)

\* Lines 70-74: the files below download_dir whose name ends with ".<format>".
CollectFiles(d, dir, audio_format) ==
    {f \in Walk(d, dir) : EndsWith(f.name, <<".">> \o audio_format)}

\* Lines 59-77: what run_spotdl returns once the tool has ended.
RunSpotdlResult(outcome, d, dir, audio_format) ==
    IF outcome = "timeout" THEN {}
    ELSE IF outcome # "exit0" THEN {}
    ELSE CollectFiles(d, dir, audio_format)

\* os.path.relpath(filepath, "downloads")
RelPath(f, dir) == SubSeq(f.dir, Len(dir) + 1, Len(f.dir)) \o f.name

NoDir == [exists |-> FALSE, files |-> {}]

\* if os.path.exists(dir): shutil.rmtree(dir)
RmTree(d) == NoDir

\* Lines 46-48: an existing directory is removed, then created empty.
FreshDir(d) == [exists |-> TRUE, files |-> {}]

\* ------------------------------------------------------------------ Bot API calls

Call(api, text, files, result) ==
    [api |-> api, text |-> text, files |-> files, result |-> result]

ReplyText(text) == Call("reply_text", text, {}, "ok")
Edit(text, result) == Call("edit_message_text", text, {}, result)

\* safe_edit_text (lines 153-160) raises unless the edit was done or was
\* rejected as "Message is not modified".
EditRaises(result) == result \notin {"ok", "not_modified"}

NoTask == [user |-> 0, url |-> None, fmt |-> <<>>, pc |-> "none",
           outcome |-> "none", result |-> {}]

\* A handler step: the handler, the update it serves, whether it is the entry
\* of the handler or its resumption after the download, how it ended
\* ("returned", "raised", or "awaiting" the worker thread), the calls it made,
\* the download it started or finished, and the pending map it found.
Step(op, user, data, stage, status, out, task) ==
    [op |-> op, user |-> user, data |-> data, stage |-> stage,
     status |-> status, out |-> out, task |-> task,
     before |-> pending_downloads]

\* ------------------------------------------------------------------ state

Init ==
    /\ pending_downloads = [u \in Users |-> None]
    /\ update_queue = <<>>
    /\ running = <<>>
    /\ downloads = NoDir
    /\ submitted = [u \in Users |-> None]
    /\ last = Step("none", 0, <<>>, "entry", "returned", <<>>, NoTask)

\* Mutant: the application is built with concurrent_updates(True).
concurrent_updates_on == TRUE

\* ApplicationBuilder().token(BOT_TOKEN).build(): concurrent_updates is left
\* at its default, off.
concurrent_updates == FALSE

\* Mutant: the handlers are registered with block=False.
CanProcess_NonBlocking == TRUE

\* The application takes the next update when no handler is being awaited.
CanProcess == concurrent_updates \/ running = <<>>

Head1(kind) ==
    /\ update_queue # <<>>
    /\ CanProcess
    /\ Head(update_queue).kind = kind

\* run_polling: an update arrives and is queued.
ReceiveFrom(S) ==
    /\ Len(update_queue) < MaxQueue
    /\ \E upd \in S : update_queue' = Append(update_queue, upd)
    /\ UNCHANGED <<pending_downloads, running, downloads, submitted, last>>

Receive == ReceiveFrom(Updates)

\* Lines 81-93.
start ==
    /\ Head1("command")
    /\ Head(update_queue).data = <<"/start">>
    /\ update_queue' = Tail(update_queue)
    /\ last' = Step("start", Head(update_queue).user, Head(update_queue).data,
                    "entry", "returned", <<ReplyText("welcome")>>, NoTask)
    /\ UNCHANGED <<pending_downloads, running, downloads, submitted>>

\* Lines 96-109.
help_command ==
    /\ Head1("command")
    /\ Head(update_queue).data = <<"/help">>
    /\ update_queue' = Tail(update_queue)
    /\ last' = Step("help_command", Head(update_queue).user, Head(update_queue).data,
                    "entry", "returned", <<ReplyText("help")>>, NoTask)
    /\ UNCHANGED <<pending_downloads, running, downloads, submitted>>

\* Lines 112-113.
status_command ==
    /\ Head1("command")
    /\ Head(update_queue).data = <<"/status">>
    /\ update_queue' = Tail(update_queue)
    /\ last' = Step("status_command", Head(update_queue).user, Head(update_queue).data,
                    "entry", "returned", <<ReplyText("online")>>, NoTask)
    /\ UNCHANGED <<pending_downloads, running, downloads, submitted>>

\* Mutant: pending_downloads.setdefault(user_id, ...), the first URL is kept.
StorePending_KeepFirst(pending, user_id, message) ==
    IF IsSpotifyUrl(message) /\ pending[user_id] = None
    THEN [pending EXCEPT ![user_id] = message]
    ELSE pending

\* Lines 130-131: the record of user_id after a message was taken.
StorePending(pending, user_id, message) ==
    IF IsSpotifyUrl(message) THEN [pending EXCEPT ![user_id] = message] ELSE pending

\* Lines 116-144.
handle_message ==
    /\ Head1("text")
    /\ LET user_id == Head(update_queue).user
           message == Strip(Head(update_queue).data)
       IN  /\ pending_downloads' = StorePending(pending_downloads, user_id, message)
           /\ submitted' = IF IsSpotifyUrl(message)
                           THEN [submitted EXCEPT ![user_id] = message]
                           ELSE submitted
           /\ last' = Step("handle_message", user_id, Head(update_queue).data,
                           "entry", "returned",
                           IF IsSpotifyUrl(message)
                           THEN <<ReplyText("choose_format")>>
                           ELSE <<ReplyText("send_valid_url")>>,
                           NoTask)
    /\ update_queue' = Tail(update_queue)
    /\ UNCHANGED <<running, downloads>>

\* Lines 177-178: data.split("_", 1)[1] of a data that starts with "format_".
SelectedFormat(data) == Tail(data)

\* Mutant: the format is not checked.
IsSupported_Any(selected_format) == TRUE

\* selected_format in SUPPORTED_FORMATS
IsSupported(selected_format) ==
    \E i \in 1..Len(SUPPORTED_FORMATS) : SUPPORTED_FORMATS[i] = selected_format

Task(user, url, fmt) ==
    [user |-> user, url |-> url, fmt |-> fmt, pc |-> "executor",
     outcome |-> "none", result |-> {}]

RemoveAt(seq, i) == SubSeq(seq, 1, i - 1) \o SubSeq(seq, i + 1, Len(seq))

\* Mutant: pending_downloads.clear()
Pop_Clear(pending, user_id) == [u \in DOMAIN pending |-> None]

\* pending_downloads.pop(user_id, None)
Pop(pending, user_id) == [pending EXCEPT ![user_id] = None]

\* Lines 147-190 and 228-229: button_handler up to its first await of the
\* worker thread.
button_handler ==
    /\ Head1("callback")
    /\ update_queue' = Tail(update_queue)
    /\ UNCHANGED <<pending_downloads, downloads, submitted>>
    /\ LET user_id == Head(update_queue).user
           data == Head(update_queue).data
           Done(out, raised) ==
               /\ last' = Step("button_handler", user_id, data, "entry",
                               IF raised THEN "raised" ELSE "returned", out, NoTask)
               /\ running' = running
       IN  \/ /\ data = <<"help">>
              /\ \E r \in EditResults : Done(<<Edit("help_menu", r)>>, EditRaises(r))
           \/ /\ data # <<"help">>
              /\ data = <<"status">>
              /\ \E r \in EditResults : Done(<<Edit("operational", r)>>, EditRaises(r))
           \/ /\ data \notin {<<"help">>, <<"status">>}
              /\ StartsWith(data, <<"format_">>)
              /\ pending_downloads[user_id] = None
              /\ \E r \in EditResults : Done(<<Edit("no_pending", r)>>, EditRaises(r))
           \/ /\ data \notin {<<"help">>, <<"status">>}
              /\ StartsWith(data, <<"format_">>)
              /\ pending_downloads[user_id] # None
              /\ ~IsSupported(SelectedFormat(data))
              /\ \E r \in EditResults : Done(<<Edit("invalid_format", r)>>, EditRaises(r))
           \/ /\ data \notin {<<"help">>, <<"status">>}
              /\ StartsWith(data, <<"format_">>)
              /\ pending_downloads[user_id] # None
              /\ IsSupported(SelectedFormat(data))
              /\ \E r \in EditResults :
                    LET task == Task(user_id, pending_downloads[user_id],
                                     SelectedFormat(data))
                    IN  IF EditRaises(r)
                        THEN Done(<<Edit("downloading", r)>>, TRUE)
                        ELSE /\ running' = Append(running, task)
                             /\ last' = Step("button_handler", user_id, data, "entry",
                                             "awaiting", <<Edit("downloading", r)>>, task)
           \/ /\ data \notin {<<"help">>, <<"status">>}
              /\ ~StartsWith(data, <<"format_">>)
              /\ Done(<<Call("answer", "unknown_action", {}, "ok")>>, FALSE)

\* Lines 44-58, in the worker thread: the directory is made fresh and the
\* tool is launched.
run_spotdl_begin ==
    \E i \in 1..Len(running) :
        /\ running[i].pc = "executor"
        /\ downloads' = FreshDir(downloads)
        /\ running' = [running EXCEPT ![i].pc = "subprocess"]
        /\ UNCHANGED <<pending_downloads, update_queue, submitted, last>>

\* Mutant: subprocess.run without timeout=300; a tool that hangs is waited
\* for without end.
ToolEnds_NoTimeout(i, outcome, n, side) ==
    IF outcome = "timeout"
    THEN /\ running' = [running EXCEPT ![i].pc = "hung"]
         /\ UNCHANGED downloads
    ELSE LET d == [exists |-> TRUE,
                   files |-> downloads.files \cup ToolOutput(running[i].url, running[i].fmt, n, side)]
         IN  /\ downloads' = d
             /\ running' = [running EXCEPT
                   ![i].pc = "returned",
                   ![i].outcome = outcome,
                   ![i].result = RunSpotdlResult(outcome, d, download_dir,
                                                 running[i].fmt)]

\* Lines 59-77: the tool has written n audio files (and a side file) and
\* ended, or was cut off by the timeout; run_spotdl returns.
ToolEnds(i, outcome, n, side) ==
    LET d == [exists |-> TRUE,
              files |-> downloads.files \cup ToolOutput(running[i].url, running[i].fmt, n, side)]
    IN  /\ downloads' = d
        /\ running' = [running EXCEPT
              ![i].pc = "returned",
              ![i].outcome = outcome,
              ![i].result = RunSpotdlResult(outcome, d, download_dir,
                                            running[i].fmt)]

\* Lines 59-77, in the worker thread.
run_spotdl_end ==
    \E i \in 1..Len(running) :
        /\ running[i].pc = "subprocess"
        /\ \E outcome \in ToolOutcomes, n \in 0..MaxFiles, side \in BOOLEAN :
              ToolEnds(i, outcome, n, side)
        /\ UNCHANGED <<pending_downloads, update_queue, submitted, last>>

\* Mutant: len(downloaded_files) >= 1
Deliver_ZipFromOne(downloaded_files, result) ==
    IF Cardinality(downloaded_files) >= 1
    THEN Call("reply_document", "zip",
              {RelPath(f, download_dir) : f \in downloaded_files}, result)
    ELSE Call("reply_audio", "track", downloaded_files, result)

\* Lines 200-220: what the try block sends for the files run_spotdl returned.
Deliver(downloaded_files, result) ==
    IF Cardinality(downloaded_files) > 1
    THEN Call("reply_document", "zip",
              {RelPath(f, download_dir) : f \in downloaded_files}, result)
    ELSE Call("reply_audio", "track", downloaded_files, result)

\* Lines 192-227: button_handler from the return of run_spotdl to its end.
button_handler_resume ==
    \E i \in 1..Len(running) :
        /\ running[i].pc = "returned"
        /\ running' = RemoveAt(running, i)
        /\ UNCHANGED <<update_queue, submitted>>
        /\ LET t == running[i]
               Finish(status, out) ==
                   last' = Step("button_handler", t.user, <<"format_">> \o t.fmt,
                                "resume", status, out, t)
           IN  IF t.result = {}
               THEN \E r \in EditResults :
                       IF EditRaises(r)
                       THEN /\ Finish("raised", <<Edit("failed_download", r)>>)
                            /\ UNCHANGED <<pending_downloads, downloads>>
                       ELSE /\ Finish("returned", <<Edit("failed_download", r)>>)
                            /\ pending_downloads' = Pop(pending_downloads, t.user)
                            /\ downloads' = RmTree(downloads)
               ELSE /\ \E r \in SendResults :
                          LET sent == IF t.result \subseteq Walk(downloads, download_dir)
                                      THEN r ELSE "error"
                          IN  Finish("returned",
                                     IF sent = "ok"
                                     THEN <<Deliver(t.result, sent)>>
                                     ELSE <<Deliver(t.result, sent),
                                            ReplyText("failed_send")>>)
                    /\ pending_downloads' = Pop(pending_downloads, t.user)
                    /\ downloads' = RmTree(downloads)

Next ==
    \/ Receive
    \/ start
    \/ help_command
    \/ status_command
    \/ handle_message
    \/ button_handler
    \/ run_spotdl_begin
    \/ run_spotdl_end
    \/ button_handler_resume

Spec == Init /\ [][Next]_vars

\* ------------------------------------------------------------------ SpecText
\* handle_message on every text of up to MaxTextLen chunks, from a state with
\* any pending records.

InitText ==
    /\ pending_downloads \in [Users -> {None, TextB}]
    /\ update_queue \in {<<Update("text", u, t)>> : u \in Users, t \in TextsUpTo(MaxTextLen)}
    /\ running = <<>>
    /\ downloads = NoDir
    /\ submitted = pending_downloads
    /\ last = Step("none", 0, <<>>, "entry", "returned", <<>>, NoTask)

SpecText == InitText /\ [][handle_message]_vars

\* ------------------------------------------------------------------ FairSpec
\* The updates of one user; the worker thread runs, the tool ends or is cut
\* off by the timeout, and the event loop resumes the handler.

LiveUpdates == {upd \in Updates : upd.user = 1}

ReceiveLive == ReceiveFrom(LiveUpdates)

NextLive ==
    \/ ReceiveLive
    \/ start
    \/ help_command
    \/ status_command
    \/ handle_message
    \/ button_handler
    \/ run_spotdl_begin
    \/ run_spotdl_end
    \/ button_handler_resume

FairSpec ==
    /\ Init
    /\ [][NextLive]_vars
    /\ WF_vars(run_spotdl_begin)
    /\ WF_vars(run_spotdl_end)
    /\ WF_vars(button_handler_resume)

\* ------------------------------------------------------------------ claims

\* The six accepted prefixes, as the claims state them.
AcceptedPrefixes ==
    { <<"https://open.spotify.com/", "track/">>,
      <<"https://open.spotify.com/", "playlist/">>,
      <<"https://open.spotify.com/", "album/">>,
      <<"spotify:", "track:">>, <<"spotify:", "playlist:">>, <<"spotify:", "album:">> }

HasAcceptedPrefix(text) == \E p \in AcceptedPrefixes : StartsWith(text, p)

FormatSelection(data) == StartsWith(data, <<"format_">>)

Resumed == last.op = "button_handler" /\ last.stage = "resume"

\* C1: after handle_message, if the stripped text starts with one of the six
\* accepted prefixes, the sender's pending record holds the stripped text and
\* the format choice was offered; otherwise the whole pending map is as it
\* was and the sender got the 'send a valid Spotify URL' reply.
C1_ValidUrlCreatesPending ==
    last.op = "handle_message" =>
        IF HasAcceptedPrefix(Strip(last.data))
        THEN /\ pending_downloads = [last.before EXCEPT ![last.user] = Strip(last.data)]
             /\ last.out = <<ReplyText("choose_format")>>
        ELSE /\ pending_downloads = last.before
             /\ last.out = <<ReplyText("send_valid_url")>>

\* C1 witness: a URL sent with surrounding whitespace was stored stripped.
C1_Witness ==
    /\ last.op = "handle_message"
    /\ HasAcceptedPrefix(Strip(last.data))
    /\ Strip(last.data) # last.data
    /\ pending_downloads[last.user] = Strip(last.data)
    /\ last.before[last.user] # Strip(last.data)

\* C2: a user's pending record, when there is one, is the URL that user
\* submitted most recently; a submission overwrites the record; and the URL a
\* format selection hands to the downloader is the user's latest submission.
C2_PendingIsLatestSubmission ==
    /\ \A u \in Users : pending_downloads[u] \in {None, submitted[u]}
    /\ (last.op = "handle_message" /\ HasAcceptedPrefix(Strip(last.data)))
           => pending_downloads[last.user] = Strip(last.data)
    /\ (last.op = "button_handler" /\ last.status = "awaiting")
           => last.task.url = submitted[last.user]
    /\ \A i \in 1..Len(running) : running[i].url = submitted[running[i].user]

\* C2 witness: a second, different URL of a user replaced the record of the
\* first.
C2_Witness ==
    /\ last.op = "handle_message"
    /\ last.before[last.user] = Strip(TextA)
    /\ pending_downloads[last.user] = TextB
    /\ submitted[last.user] = TextB

\* C3: when button_handler ends after the download of a format selection
\* (files delivered, download failed, or sending raised), the user has no
\* pending record.
C3_SelectionConsumesPending ==
    (Resumed /\ last.before[last.user] # None) => pending_downloads[last.user] = None

\* C4: a user's pending record is changed only by that user's own valid
\* submission or format selection: commands, 'help'/'status'/unknown
\* callbacks and invalid texts leave the whole map as it was, and no event
\* changes another user's record.
C4_OnlyOwnerChangesPending ==
    /\ \A u \in Users : u # last.user => pending_downloads[u] = last.before[u]
    /\ last.op \in {"start", "help_command", "status_command"}
           => pending_downloads = last.before
    /\ (last.op = "handle_message" /\ ~HasAcceptedPrefix(Strip(last.data)))
           => pending_downloads = last.before
    /\ (last.op = "button_handler" /\ ~FormatSelection(last.data))
           => pending_downloads = last.before

\* C4 witness: one user's selection was served to its end while another
\* user's record stayed in place.
C4_Witness ==
    /\ Resumed
    /\ pending_downloads[last.user] = None
    /\ \E u \in Users : u # last.user /\ pending_downloads[u] # None

\* C5: more than one downloaded file: one reply_document with a zip of all of
\* them and no audio message; exactly one file: one reply_audio with that
\* file and no document; none: only the 'Failed to download' edit.
C5_ZipIffSeveralFiles ==
    Resumed =>
        LET files == last.task.result
            sends == {k \in 1..Len(last.out) :
                         last.out[k].api \in {"reply_document", "reply_audio"}}
        IN  IF Cardinality(files) > 1
            THEN /\ sends = {1}
                 /\ last.out[1].api = "reply_document"
                 /\ last.out[1].files = {RelPath(f, download_dir) : f \in files}
                 /\ Cardinality(last.out[1].files) = Cardinality(files)
                 /\ last.out[1].result = "ok" => Len(last.out) = 1
            ELSE IF Cardinality(files) = 1
            THEN /\ sends = {1}
                 /\ last.out[1].api = "reply_audio"
                 /\ last.out[1].files = files
                 /\ last.out[1].result = "ok" => Len(last.out) = 1
            ELSE /\ sends = {}
                 /\ Len(last.out) = 1
                 /\ last.out[1].api = "edit_message_text"
                 /\ last.out[1].text = "failed_download"

\* C5 witness: two files were returned and delivered as one zip.
C5_Witness ==
    /\ Resumed
    /\ Cardinality(last.task.result) = 2
    /\ last.out[1].api = "reply_document"
    /\ last.out[1].result = "ok"

\* C6: when the tool timed out or exited non-zero, run_spotdl returned no
\* file whatever the directory holds, and button_handler showed the 'Failed
\* to download' notice, sent no file and removed the user's pending record.
C6_FailedDownloadIsReported ==
    /\ \A i \in 1..Len(running) :
          (running[i].pc = "returned" /\ running[i].outcome \in {"timeout", "nonzero"})
              => running[i].result = {}
    /\ (Resumed /\ last.task.outcome \in {"timeout", "nonzero"})
           => /\ Len(last.out) = 1
              /\ last.out[1].api = "edit_message_text"
              /\ last.out[1].text = "failed_download"
              /\ last.out[1].result \in {"ok", "not_modified"}
              /\ pending_downloads[last.user] = None

\* C7 as stated: a second format selection by a user whose download is still
\* in progress can be handled at once.
C7_SecondSelectionRunsConcurrently ==
    ( /\ running # <<>>
      /\ update_queue # <<>>
      /\ Head(update_queue).kind = "callback"
      /\ Head(update_queue).data = <<"format_", "mp3">>
      /\ \E i \in 1..Len(running) : running[i].user = Head(update_queue).user )
        => ENABLED button_handler

\* C7, amended: format selections are served one at a time; while a download
\* is in progress no other download is, and button_handler cannot be entered.
C7_SelectionsAreSerialized ==
    /\ Len(running) <= 1
    /\ running # <<>> => ~ENABLED button_handler

\* C7 witness: the user's second format selection has arrived while the
\* download of the first is in progress.
C7_Witness ==
    /\ Len(running) = 1
    /\ running[1].pc = "subprocess"
    /\ update_queue # <<>>
    /\ Head(update_queue) = Update("callback", running[1].user, <<"format_", "mp3">>)
    /\ pending_downloads[running[1].user] = running[1].url

\* C8 as stated: while a download is running in the worker thread,
\* handle_message can be run for an update that has arrived.
C8_HandlersRunDuringDownload ==
    ( /\ \E i \in 1..Len(running) : running[i].pc = "subprocess"
      /\ update_queue # <<>>
      /\ Head(update_queue).kind = "text" )
        => ENABLED handle_message

\* C8, amended: while a download is in progress updates are still received,
\* but none is taken from the queue: no handler runs for them before the
\* handler awaiting the download has ended.
C8_UpdatesWaitForDownload ==
    [][running # <<>>
          => /\ Len(update_queue') >= Len(update_queue)
             /\ (last' # last => last'.stage = "resume")]_vars

\* C8 witness: another user's message was received during a download.
C8_Witness ==
    /\ Len(running) = 1
    /\ running[1].pc = "subprocess"
    /\ update_queue # <<>>
    /\ Head(update_queue).kind = "text"
    /\ Head(update_queue).user # running[1].user

\* The handler ended with the file(s) delivered or a failure notice shown.
TerminalOutcome(step) ==
    \/ /\ step.out[1].api \in {"reply_document", "reply_audio"}
       /\ step.out[1].result = "ok"
    \/ /\ step.out[1].api = "edit_message_text"
       /\ step.out[1].text = "failed_download"
       /\ step.out[1].result \in {"ok", "not_modified"}
    \/ /\ Len(step.out) = 2
       /\ step.out[2] = ReplyText("failed_send")

C10_DownloadNeedsUrlAndFormat ==
    /\ \A i \in 1..Len(running) :
          /\ running[i].fmt \in {<<"mp3">>, <<"m4a">>, <<"flac">>, <<"opus">>}
          /\ HasAcceptedPrefix(running[i].url)
    /\ (last.op = "button_handler" /\ last.task # NoTask)
           => /\ last.data = <<"format_">> \o last.task.fmt
              /\ last.task.user = last.user
              /\ last.before[last.user] # None
              /\ last.stage = "entry" => last.task.url = last.before[last.user]
    /\ (last.op = "button_handler" /\ last.stage = "entry" /\ FormatSelection(last.data)
          /\ last.before[last.user] = None)
           => /\ Len(last.out) = 1
              /\ last.out[1].text = "no_pending"
              /\ last.task = NoTask
    /\ (last.op = "button_handler" /\ last.stage = "entry" /\ FormatSelection(last.data)
          /\ last.before[last.user] # None
          /\ Tail(last.data) \notin {<<"mp3">>, <<"m4a">>, <<"flac">>, <<"opus">>})
           => /\ Len(last.out) = 1
              /\ last.out[1].text = "invalid_format"
              /\ last.task = NoTask
              /\ pending_downloads[last.user] = last.before[last.user]

\* C10 witness: a selection of an unsupported format was refused and the
\* record is still there.
C10_Witness ==
    /\ last.op = "button_handler"
    /\ last.data = <<"format_", "wav">>
    /\ last.out = <<Edit("invalid_format", "ok")>>
    /\ pending_downloads[last.user] # None
    /\ running = <<>>

\* C11: requests do not interfere through the shared directory: what
\* run_spotdl returns, and what is delivered, are files written by the
\* download of the request's own URL; the files a request is about to deliver
\* are still in the directory; and no file of another URL lies among them.
C11_RequestsDoNotInterfere ==
    /\ \A i \in 1..Len(running) :
          running[i].pc = "returned" =>
              /\ \A f \in running[i].result : f.of = running[i].url
              /\ running[i].result \subseteq Walk(downloads, download_dir)
              /\ \A f \in Walk(downloads, download_dir) : f.of = running[i].url
    /\ Resumed =>
          \A f \in last.task.result : f.of = last.task.url

\* C11 witness: one user's files are ready to be delivered while the other
\* user, who has a record of another URL, has pressed a format button.
C11_Witness ==
    /\ Len(running) = 1
    /\ running[1].pc = "returned"
    /\ running[1].result # {}
    /\ update_queue # <<>>
    /\ Head(update_queue).kind = "callback"
    /\ Head(update_queue).data = <<"format_", "mp3">>
    /\ Head(update_queue).user # running[1].user
    /\ pending_downloads[Head(update_queue).user] \notin {None, running[1].url}

\* C12: a user's pending record is removed only by the end of a format
\* selection that read that same URL, and that step leaves the update queue
\* alone: a URL the user sent during the download is not lost with it.
C12_OnlyItsOwnSelectionRemovesUrl ==
    [][\A u \in Users :
          (pending_downloads[u] # None /\ pending_downloads'[u] = None)
              => /\ last'.op = "button_handler"
                 /\ last'.stage = "resume"
                 /\ last'.user = u
                 /\ last'.task.url = pending_downloads[u]
                 /\ update_queue' = update_queue]_vars

\* C12 witness: the earlier download has ended and the URL the user sent
\* while it ran is still to be handled.
C12_Witness ==
    /\ Resumed
    /\ pending_downloads[last.user] = None
    /\ update_queue # <<>>
    /\ Head(update_queue).kind = "text"
    /\ Head(update_queue).user = last.user
    /\ HasAcceptedPrefix(Strip(Head(update_queue).data))
    /\ Strip(Head(update_queue).data) # last.task.url

\* C13: whenever no format selection is being handled the downloads
\* directory does not exist, and every download starts from an empty
\* directory.
C13_DirectoryIsCleanedUp ==
    /\ running = <<>> => ~downloads.exists
    /\ \A i \in 1..Len(running) :
          running[i].pc = "subprocess" => (downloads.exists /\ downloads.files = {})

\* The extension of a file name: what follows its last ".".
Extension(name) == <<name[Len(name)]>>

\* C14: when the tool exited 0, run_spotdl returned exactly the files at or
\* below the directory whose extension is the selected format; only such
\* files are sent; and when there is none the handler does what it does for
\* a failed download: only the 'Failed to download' edit.
C14_OnlySelectedFormat ==
    /\ \A i \in 1..Len(running) :
          (running[i].pc = "returned" /\ running[i].outcome = "exit0") =>
              running[i].result =
                  {f \in downloads.files :
                      /\ f.dir[1] = "downloads"
                      /\ Len(f.name) >= 2
                      /\ f.name[Len(f.name) - 1] = "."
                      /\ Extension(f.name) = running[i].fmt}
    /\ Resumed =>
          /\ \A f \in last.task.result : Extension(f.name) = last.task.fmt
          /\ \A k \in 1..Len(last.out) :
                /\ last.out[k].api = "reply_audio"
                      => \A f \in last.out[k].files : Extension(f.name) = last.task.fmt
                /\ last.out[k].api = "reply_document"
                      => \A a \in last.out[k].files : Extension(a) = last.task.fmt
          /\ (last.task.outcome = "exit0" /\ last.task.result = {})
                => /\ \E r \in EditResults : last.out = <<Edit("failed_download", r)>>
                   /\ last.status = "returned"
                         => (pending_downloads[last.user] = None /\ ~downloads.exists)

\* C14 witness: the tool exited 0 leaving a cover image, one track at the top
\* and one in a sub-directory; the two tracks were sent, the image was not.
C14_Witness ==
    /\ Resumed
    /\ last.task.outcome = "exit0"
    /\ Cardinality(last.task.result) = 2
    /\ \E f \in last.task.result : Len(f.dir) = 2
    /\ last.out[1].api = "reply_document"
    /\ Cardinality(last.out[1].files) = 2
    /\ last.before[last.user] # None

\* C15: a 'Message is not modified' rejection is swallowed and the handler
\* goes on as after a successful edit; after any other rejection of the
\* 'Downloading' or the 'Failed to download' edit of a format selection, the
\* user's pending record and the downloads directory are gone when the
\* handler has ended.
C15_RejectedEditLeavesNothingBehind ==
    /\ (last.op = "button_handler" /\ Len(last.out) >= 1
          /\ last.out[1].api = "edit_message_text"
          /\ last.out[1].result = "not_modified")
           => last.status # "raised"
    /\ (last.op = "button_handler" /\ last.status = "raised"
          /\ last.out[Len(last.out)].text \in {"downloading", "failed_download"})
           => /\ pending_downloads[last.user] = None
              /\ ~downloads.exists

====
